---- MODULE Spec2Model ----
(***************************************************************************)
(* Go-Back-N host (src/gbn_host.py): two GBNHost entities A and B joined   *)
(* by a simulator channel that may drop, duplicate, reorder and            *)
(* (detectably) corrupt packets.  Packets are byte sequences, framed and   *)
(* checksummed exactly as make_pkt / get_checksum / is_corrupt /           *)
(* extract_payload do.                                                     *)
(***************************************************************************)
EXTENDS Integers, Sequences, FiniteSets, TLC

\* ------------------------------------------------------------------ bounds
MaxSubmitsA == 3        \* submits the application of A makes (Spec)
BurstSubmits == 4       \* submits of A in SpecBurst: two payloads queue up
LiveSubmits == 2        \* submits of A in SpecLive

\* ------------------------------------------------ configuration, constants
WindowSize == 2         \* window_size handed to both constructors
ACK  == 0               \* packet_type of an acknowledgment
DATA == 128             \* packet_type of a data packet
HeaderLen == 12         \* bytes of the "!HiHI" header
AllOnes == 65535        \* the value is_corrupt compares the folded sum with

Ent == {"A", "B"}
Peer(e) == IF e = "A" THEN "B" ELSE "A"

\* payloads are Python str values: sequences of code points
EmptyStr == << >>
Payloads == {EmptyStr, <<97>>, <<98>>}

\* ------------------------------------------------------- sequence helpers
Range(s) == {s[i] : i \in 1..Len(s)}
Take(s, n) == IF n >= Len(s) THEN s ELSE SubSeq(s, 1, n)
DropFirst(s, n) == IF n >= Len(s) THEN << >> ELSE SubSeq(s, n + 1, Len(s))
Zeros(n) == [i \in 1..n |-> 0]
IsPrefix(s, t) == Len(s) <= Len(t) /\ \A i \in 1..Len(s) : s[i] = t[i]

\* ---------------------------------------------------------- struct.pack
\* "!H": 16-bit unsigned, big-endian
PackH(x) == << (x \div 256) % 256, x % 256 >>
\* "!I": 32-bit unsigned, big-endian
PackI(x) == << (x \div 16777216) % 256, (x \div 65536) % 256,
               (x \div 256) % 256, x % 256 >>
\* "!i": 32-bit signed, two's complement, big-endian (the machine integers
\* here are 32-bit, so a negative n is framed as n + 2^31 with the top bit set)
Packi(n) == IF n >= 0 THEN PackI(n)
            ELSE [PackI((n + 2147483647) + 1) EXCEPT ![1] = @ + 128]
\* "<n>s": the first n bytes of b, padded with zero bytes
PackS(b, n) == IF Len(b) >= n THEN Take(b, n) ELSE b \o Zeros(n - Len(b))

UnpackH(b) == b[1] * 256 + b[2]
\* "!I" of four bytes whose first is below 128 (a larger value exceeds 2^31)
UnpackI(b) == b[1] * 16777216 + b[2] * 65536 + b[3] * 256 + b[4]
Unpacki(b) == IF b[1] >= 128
              THEN (b[1] - 256) * 16777216 + b[2] * 65536 + b[3] * 256 + b[4]
              ELSE UnpackI(b)

\* ------------------------------------------------- str.encode('utf-8')
EncodeCp(c) ==
    IF c < 128 THEN << c >>
    ELSE IF c < 2048 THEN << 192 + (c \div 64), 128 + (c % 64) >>
    ELSE IF c < 65536 THEN << 224 + (c \div 4096), 128 + ((c \div 64) % 64),
                              128 + (c % 64) >>
    ELSE << 240 + (c \div 262144), 128 + ((c \div 4096) % 64),
            128 + ((c \div 64) % 64), 128 + (c % 64) >>

RECURSIVE EncodeFrom(_, _)
EncodeFrom(str, i) == IF i > Len(str) THEN << >>
                      ELSE EncodeCp(str[i]) \o EncodeFrom(str, i + 1)

encode(str) == EncodeFrom(str, 1)

\* ------------------------------------------------ bytes.decode() (strict)
IsCont(b) == b >= 128 /\ b <= 191

\* number of bytes of the well-formed UTF-8 sequence at position i of b,
\* 0 if there is none
Utf8Len(b, i) ==
    IF b[i] < 128 THEN 1
    ELSE IF b[i] >= 194 /\ b[i] <= 223
         THEN (IF Len(b) >= i + 1 /\ IsCont(b[i + 1]) THEN 2 ELSE 0)
    ELSE IF b[i] >= 224 /\ b[i] <= 239
         THEN (IF /\ Len(b) >= i + 2 /\ IsCont(b[i + 1]) /\ IsCont(b[i + 2])
                  /\ (b[i] = 224 => b[i + 1] >= 160)
                  /\ (b[i] = 237 => b[i + 1] <= 159)
               THEN 3 ELSE 0)
    ELSE IF b[i] >= 240 /\ b[i] <= 244
         THEN (IF /\ Len(b) >= i + 3 /\ IsCont(b[i + 1]) /\ IsCont(b[i + 2])
                  /\ IsCont(b[i + 3])
                  /\ (b[i] = 240 => b[i + 1] >= 144)
                  /\ (b[i] = 244 => b[i + 1] <= 143)
               THEN 4 ELSE 0)
    ELSE 0

DecodeCp(b, i, n) ==
    IF n = 1 THEN b[i]
    ELSE IF n = 2 THEN (b[i] - 192) * 64 + (b[i + 1] - 128)
    ELSE IF n = 3 THEN (b[i] - 224) * 4096 + (b[i + 1] - 128) * 64
                       + (b[i + 2] - 128)
    ELSE (b[i] - 240) * 262144 + (b[i + 1] - 128) * 4096
         + (b[i + 2] - 128) * 64 + (b[i + 3] - 128)

RECURSIVE DecodableFrom(_, _)
DecodableFrom(b, i) ==
    IF i > Len(b) THEN TRUE
    ELSE Utf8Len(b, i) > 0 /\ DecodableFrom(b, i + Utf8Len(b, i))

Decodable(b) == DecodableFrom(b, 1)

RECURSIVE DecodeFrom(_, _)
DecodeFrom(b, i) ==
    IF i > Len(b) THEN << >>
    ELSE << DecodeCp(b, i, Utf8Len(b, i)) >> \o DecodeFrom(b, i + Utf8Len(b, i))

decode(b) == DecodeFrom(b, 1)

\* ------------------------------------------------------------- checksum
\* the loop of get_checksum / is_corrupt: an odd-length packet is padded
\* with one zero byte, then the big-endian 16-bit words are added
ByteAt(packet, i) == IF i <= Len(packet) THEN packet[i] ELSE 0

RECURSIVE AddWords(_, _)
AddWords(packet, i) ==
    IF i > Len(packet) THEN 0
    ELSE (ByteAt(packet, i) * 256 + ByteAt(packet, i + 1))
         + AddWords(packet, i + 2)

summed_words(packet) == AddWords(packet, 1)

\* (summed_words & 0xffff) + (summed_words >> 16): one fold, no second carry
Fold(s) == (s % 65536) + (s \div 65536)

\* ~result & 0xffff
get_checksum(packet) == 65535 - (Fold(summed_words(packet)) % 65536)

is_corrupt(packet) == Fold(summed_words(packet)) # AllOnes

make_pkt(packet_type, packet_number, checksum, payload) ==
    LET packet_length == Len(payload)
        body == PackS(encode(payload), packet_length)
        packet_byte_array == PackH(packet_type) \o Packi(packet_number)
                             \o PackH(0) \o PackI(packet_length) \o body
    IN  PackH(packet_type) \o Packi(packet_number)
        \o PackH(get_checksum(packet_byte_array)) \o PackI(packet_length) \o body

\* extract_payload: raised = the decode() outside the try block threw
Degenerate == [raised |-> FALSE, data |-> << 0, 0, 0, 0, EmptyStr >>]

\* a declared length of 2^31 or more never equals the bytes present
extract_payload(payload) ==
    IF Len(payload) < HeaderLen THEN Degenerate
    ELSE IF payload[9] >= 128 THEN Degenerate
    ELSE LET payload_length == UnpackI(SubSeq(payload, 9, 12))
             message == DropFirst(payload, HeaderLen)
         IN  IF Len(message) # payload_length THEN Degenerate
             ELSE IF ~Decodable(message)
                  THEN [raised |-> TRUE, data |-> << >>]
                  ELSE [raised |-> FALSE,
                        data |-> << UnpackH(SubSeq(payload, 1, 2)),
                                    Unpacki(SubSeq(payload, 3, 6)),
                                    UnpackH(SubSeq(payload, 7, 8)),
                                    payload_length, decode(message) >>]

\* ------------------------------------------------------------------ state
VARIABLES
    window_base,        \* [Ent -> Int]   self.window_base
    next_seq_num,       \* [Ent -> Int]   self.next_seq_num
    unACKed_buffer,     \* [Ent -> Seq(packet)]  self.unACKed_buffer
    app_layer_buffer,   \* [Ent -> Seq(payload)] self.app_layer_buffer
    expected_seq_val,   \* [Ent -> Int]   self.expected_seq_val
    last_ACK,           \* [Ent -> packet] self.last_ACK
    timer,              \* [Ent -> BOOLEAN] the simulator's timer of e is running
    net,                \* [Ent -> SUBSET packet] packets transmitted towards e
    delivered,          \* [Ent -> Seq(payload)] passed to e's application layer
    submitted,          \* [Ent -> Seq(payload)] handed to e by its application
    sent,               \* packets the last handler call passed to the network
    tlog,               \* timer calls the last handler call made
    ev,                 \* the last call the simulator made
    queued_ix,          \* [Ent -> Seq(Nat)] submit index of each queued payload
    sub_of,             \* [Ent -> Seq(Nat)] submit index carried by each seq number
    probe               \* input / output of the framing functions (SpecFrame)

vars == << window_base, next_seq_num, unACKed_buffer, app_layer_buffer,
           expected_seq_val, last_ACK, timer, net, delivered, submitted,
           sent, tlog, ev, queued_ix, sub_of, probe >>

hostVars == << window_base, next_seq_num, unACKed_buffer, app_layer_buffer,
               expected_seq_val, last_ACK, timer, net, delivered, submitted,
               sent, tlog, ev, queued_ix, sub_of >>

NoProbe == [stage |-> "off"]
NoEvent == [op |-> "init", e |-> "A", arg |-> << >>, wb |-> 0, raised |-> FALSE]

\* the entity e as the handlers see it, with the effects of one call
Self(e) ==
    [window_base |-> window_base[e], next_seq_num |-> next_seq_num[e],
     unACKed_buffer |-> unACKed_buffer[e],
     app_layer_buffer |-> app_layer_buffer[e],
     expected_seq_val |-> expected_seq_val[e], last_ACK |-> last_ACK[e],
     timer |-> timer[e], out |-> << >>, app |-> << >>, tlog |-> << >>,
     queued_ix |-> queued_ix[e], sub_of |-> sub_of[e], raised |-> FALSE]

\* ------------------------------------------------- simulator services
start_timer(s) == [s EXCEPT !.timer = TRUE, !.tlog = Append(@, "start")]
stop_timer(s) == [s EXCEPT !.timer = FALSE, !.tlog = Append(@, "stop")]
pass_to_network_layer(s, pkt) == [s EXCEPT !.out = Append(@, pkt)]
pass_to_application_layer(s, payload) == [s EXCEPT !.app = Append(@, payload)]

\* ------------------------------------------------------------ handlers
\* (mutant) the timer is started for every packet sent
SendDataStartAlways(s, payload, ix) ==
    LET s1 == [s EXCEPT !.unACKed_buffer =
                   Append(@, make_pkt(DATA, s.next_seq_num, 0, payload)),
                        !.sub_of = Append(@, ix)]
        s2 == pass_to_network_layer(s1, s1.unACKed_buffer[s1.next_seq_num + 1])
    IN  [start_timer(s2) EXCEPT !.next_seq_num = @ + 1]

\* the block shared by lines 82-86 and 114-119: frame, store, transmit,
\* start the timer for a sole unacknowledged packet, advance next_seq_num
SendData(s, payload, ix) ==
    LET s1 == [s EXCEPT !.unACKed_buffer =
                   Append(@, make_pkt(DATA, s.next_seq_num, 0, payload)),
                        !.sub_of = Append(@, ix)]
        s2 == pass_to_network_layer(s1, s1.unACKed_buffer[s1.next_seq_num + 1])
        s3 == IF s2.window_base = s2.next_seq_num THEN start_timer(s2) ELSE s2
    IN  [s3 EXCEPT !.next_seq_num = @ + 1]

\* (mutant) the window test of line 81 is missing
SubmitIgnoringWindow(s, payload, ix) == SendData(s, payload, ix)

receive_from_application_layer(s, payload, ix) ==
    IF s.next_seq_num < s.window_base + WindowSize
    THEN SendData(s, payload, ix)
    ELSE [s EXCEPT !.app_layer_buffer = Append(@, payload),
                   !.queued_ix = Append(@, ix)]

\* list.pop(): the position the next payload is taken from
PopIndex(buf) == Len(buf)
Without(buf, i) == SubSeq(buf, 1, i - 1) \o SubSeq(buf, i + 1, Len(buf))

\* (mutant) the pending queue is left alone when the window slides
KeepPending(s) == s

\* the while loop of lines 110-119
RECURSIVE DrainPending(_)
DrainPending(s) ==
    IF Len(s.app_layer_buffer) > 0
       /\ s.next_seq_num < s.window_base + WindowSize
    THEN LET i == PopIndex(s.app_layer_buffer)
             s1 == [s EXCEPT !.app_layer_buffer = Without(@, i),
                             !.queued_ix = Without(@, i)]
         IN  DrainPending(SendData(s1, s.app_layer_buffer[i], s.queued_ix[i]))
    ELSE s

\* (mutant) the base slides by one packet instead of to ack_num + 1
OnAckSlideByOne(s, ack_num) ==
    IF ack_num >= s.window_base
    THEN LET s1 == stop_timer([s EXCEPT !.window_base = @ + 1])
             s2 == IF s1.window_base # s1.next_seq_num THEN start_timer(s1)
                   ELSE s1
         IN  DrainPending(s2)
    ELSE s

\* (mutant) the timer is started again without being stopped first
OnAckNoStop(s, ack_num) ==
    IF ack_num >= s.window_base
    THEN LET s1 == [s EXCEPT !.window_base = ack_num + 1]
             s2 == IF s1.window_base # s1.next_seq_num THEN start_timer(s1)
                   ELSE s1
         IN  DrainPending(s2)
    ELSE s

\* (mutant) the comparison of line 104 is missing
OnAckUnguarded(s, ack_num) ==
    LET s1 == stop_timer([s EXCEPT !.window_base = ack_num + 1])
        s2 == IF s1.window_base # s1.next_seq_num THEN start_timer(s1)
              ELSE s1
    IN  DrainPending(s2)

\* (mutant) the timer is not started again for the packets still outstanding
OnAckNoRestart(s, ack_num) ==
    IF ack_num >= s.window_base
    THEN DrainPending(stop_timer([s EXCEPT !.window_base = ack_num + 1]))
    ELSE s

\* lines 104-119
OnAck(s, ack_num) ==
    IF ack_num >= s.window_base
    THEN LET s1 == stop_timer([s EXCEPT !.window_base = ack_num + 1])
             s2 == IF s1.window_base # s1.next_seq_num THEN start_timer(s1)
                   ELSE s1
         IN  DrainPending(s2)
    ELSE s

\* (mutant) the sequence number is not compared
AcceptsAnyNumber(s, data, corrupt) ==
    ~corrupt /\ data[4] # 0

\* the test of line 124
Accepts(s, data, corrupt) ==
    ~corrupt /\ data[2] = s.expected_seq_val /\ data[4] # 0

\* (mutant) the ACK names the number after the one accepted
OnDataAckAhead(s, data, corrupt) ==
    IF Accepts(s, data, corrupt)
    THEN LET s1 == pass_to_application_layer(s, data[5])
             s2 == [s1 EXCEPT !.last_ACK =
                        make_pkt(ACK, s.expected_seq_val + 1, 0, EmptyStr)]
             s3 == pass_to_network_layer(s2, s2.last_ACK)
         IN  [s3 EXCEPT !.expected_seq_val = @ + 1]
    ELSE pass_to_network_layer(s, s.last_ACK)

\* lines 122-132
OnData(s, data, corrupt) ==
    IF Accepts(s, data, corrupt)
    THEN LET s1 == pass_to_application_layer(s, data[5])
             s2 == [s1 EXCEPT !.last_ACK =
                                  make_pkt(ACK, s.expected_seq_val, 0, EmptyStr)]
             s3 == pass_to_network_layer(s2, s2.last_ACK)
         IN  [s3 EXCEPT !.expected_seq_val = @ + 1]
    ELSE pass_to_network_layer(s, s.last_ACK)

\* (mutant) an ACK is processed without looking at the checksum
ReceiveTrustingAcks(s, byte_data) ==
    LET x == extract_payload(byte_data)
        data == x.data
        corrupt == is_corrupt(byte_data)
    IN  IF x.raised THEN [s EXCEPT !.raised = TRUE]
        ELSE IF data[1] = 0 THEN OnAck(s, data[2])
        ELSE OnData(s, data, corrupt)

receive_from_network_layer(s, byte_data) ==
    LET x == extract_payload(byte_data)
        data == x.data
        corrupt == is_corrupt(byte_data)
    IN  IF x.raised THEN [s EXCEPT !.raised = TRUE]
        ELSE IF data[1] = 0 /\ ~corrupt THEN OnAck(s, data[2])
        ELSE IF data[1] = 0 /\ corrupt
             THEN pass_to_network_layer(s, s.last_ACK)
        ELSE OnData(s, data, corrupt)

\* (mutant) only the oldest unacknowledged packet is sent again
TimerResendOldest(s) ==
    LET s1 == start_timer(s)
    IN  [s1 EXCEPT !.out = @ \o SubSeq(s.unACKed_buffer, s.window_base + 1,
                                       IF s.window_base < s.next_seq_num
                                       THEN s.window_base + 1
                                       ELSE s.next_seq_num)]

timer_interrupt(s) ==
    LET s1 == start_timer(s)
    IN  [s1 EXCEPT !.out = @ \o SubSeq(s.unACKed_buffer, s.window_base + 1,
                                       s.next_seq_num)]

\* --------------------------------------------------------------- channel
\* net[e] holds every packet transmitted towards e.  Each may be delivered
\* any number of times (duplication), in any order (reordering), altered
\* (corruption) or never (loss).
\* what the channel may do to a packet on its way
NoMut == [k |-> "none", i |-> 0, v |-> 0]
Mutations ==
    { NoMut,
      [k |-> "set", i |-> 6, v |-> 7],      \* another number, same kind tag
      [k |-> "set", i |-> 13, v |-> 255],   \* payload no longer UTF-8
      [k |-> "cut", i |-> 5, v |-> 0] }     \* header cut short

Mutate(p, m) ==
    IF m.k = "set" THEN (IF m.i <= Len(p) THEN [p EXCEPT ![m.i] = m.v] ELSE p)
    ELSE IF m.k = "cut" THEN Take(p, m.i)
    ELSE p

\* a corruption the checksum detects (spec 3: the checksum is valid iff the
\* packet was not corrupted in transit)
Detectable(p, m) == m = NoMut \/ (Mutate(p, m) # p /\ is_corrupt(Mutate(p, m)))

\* ----------------------------------------------------------------- Init
HostInit ==
    /\ window_base = [e \in Ent |-> 0]
    /\ next_seq_num = [e \in Ent |-> 0]
    /\ unACKed_buffer = [e \in Ent |-> << >>]
    /\ app_layer_buffer = [e \in Ent |-> << >>]
    /\ expected_seq_val = [e \in Ent |-> 0]
    /\ last_ACK = [e \in Ent |-> make_pkt(ACK, -1, 0, EmptyStr)]
    /\ timer = [e \in Ent |-> FALSE]
    /\ net = [e \in Ent |-> {}]
    /\ delivered = [e \in Ent |-> << >>]
    /\ submitted = [e \in Ent |-> << >>]
    /\ sent = << >>
    /\ tlog = << >>
    /\ ev = NoEvent
    /\ queued_ix = [e \in Ent |-> << >>]
    /\ sub_of = [e \in Ent |-> << >>]

Init == HostInit /\ probe = NoProbe

\* the state after entity e ran a handler to s; pkts leave towards the peer
Commit(e, s, event) ==
    /\ window_base' = [window_base EXCEPT ![e] = s.window_base]
    /\ next_seq_num' = [next_seq_num EXCEPT ![e] = s.next_seq_num]
    /\ unACKed_buffer' = [unACKed_buffer EXCEPT ![e] = s.unACKed_buffer]
    /\ app_layer_buffer' = [app_layer_buffer EXCEPT ![e] = s.app_layer_buffer]
    /\ expected_seq_val' = [expected_seq_val EXCEPT ![e] = s.expected_seq_val]
    /\ last_ACK' = [last_ACK EXCEPT ![e] = s.last_ACK]
    /\ timer' = [timer EXCEPT ![e] = s.timer]
    /\ net' = [net EXCEPT ![Peer(e)] = @ \cup Range(s.out)]
    /\ delivered' = [delivered EXCEPT ![e] = @ \o s.app]
    /\ sent' = s.out
    /\ tlog' = s.tlog
    /\ queued_ix' = [queued_ix EXCEPT ![e] = s.queued_ix]
    /\ sub_of' = [sub_of EXCEPT ![e] = s.sub_of]
    /\ ev' = [event EXCEPT !.wb = window_base[e], !.raised = s.raised]
    /\ UNCHANGED probe

Event(op, e, arg) == [op |-> op, e |-> e, arg |-> arg, wb |-> 0, raised |-> FALSE]

\* -------------------------------------------------------------- actions
AppSubmit(e, payload, bound) ==
    /\ Len(submitted[e]) < bound
    /\ submitted' = [submitted EXCEPT ![e] = Append(@, payload)]
    /\ Commit(e, receive_from_application_layer(Self(e), payload,
                                                Len(submitted[e]) + 1),
              Event("app", e, payload))

NetDeliver(e, p, m) ==
    /\ p \in net[e]
    /\ Detectable(p, m)
    /\ Commit(e, receive_from_network_layer(Self(e), Mutate(p, m)),
              Event("net", e, Mutate(p, m)))
    /\ UNCHANGED submitted

\* the simulator's single-shot timer of e fires
TimerInterrupt(e) ==
    /\ timer[e]
    /\ Commit(e, timer_interrupt([Self(e) EXCEPT !.timer = FALSE]),
              Event("timer", e, << >>))
    /\ UNCHANGED submitted

Next ==
    \/ \E payload \in Payloads : AppSubmit("A", payload, MaxSubmitsA)
    \/ \E e \in Ent : \E p \in net[e] : \E m \in Mutations : NetDeliver(e, p, m)
    \/ \E e \in Ent : TimerInterrupt(e)

Spec == Init /\ [][Next]_vars

\* the same system, the application of A submitting a longer burst
BurstNext ==
    \/ \E payload \in Payloads : AppSubmit("A", payload, BurstSubmits)
    \/ \E e \in Ent : \E p \in net[e] : \E m \in Mutations : NetDeliver(e, p, m)
    \/ \E e \in Ent : TimerInterrupt(e)

SpecBurst == Init /\ [][BurstNext]_vars

\* ------------------------------------------- open-channel specification
\* the same system on a channel that also carries packets of another
\* protocol: well-formed, checksum valid, kind tag neither ACK nor DATA
OpenSubmits == 2
ForeignPkts == {make_pkt(5, n, 0, <<97>>) : n \in 0..1}

NetInject(e, p) ==
    /\ Commit(e, receive_from_network_layer(Self(e), p), Event("net", e, p))
    /\ UNCHANGED submitted

OpenNext ==
    \/ \E payload \in Payloads : AppSubmit("A", payload, OpenSubmits)
    \/ \E e \in Ent : \E p \in net[e] : \E m \in Mutations : NetDeliver(e, p, m)
    \/ \E e \in Ent : TimerInterrupt(e)
    \/ \E p \in ForeignPkts : NetInject("B", p)

SpecOpen == Init /\ [][OpenNext]_vars

\* ------------------------------------------------- liveness specification
LivePayloads == {EmptyStr, <<97>>}

\* every packet that can be in flight in SpecLive: towards B the DATA
\* packets of A and the initial last_ACK of A, towards A the ACKs of B
LiveToB ==
    {make_pkt(DATA, n, 0, payload) : n \in 0..(LiveSubmits - 1),
                                     payload \in LivePayloads}
    \cup {make_pkt(ACK, -1, 0, EmptyStr)}
LiveToA == {make_pkt(ACK, n, 0, EmptyStr) : n \in -1..(LiveSubmits - 1)}

LiveNext ==
    \/ \E payload \in LivePayloads : AppSubmit("A", payload, LiveSubmits)
    \/ \E e \in Ent : \E p \in net[e] : \E m \in Mutations : NetDeliver(e, p, m)
    \/ \E e \in Ent : TimerInterrupt(e)

\* a running timer eventually fires; a packet that was transmitted is not
\* lost or corrupted on every delivery
Fairness ==
    /\ WF_vars(TimerInterrupt("A"))
    /\ \A p \in LiveToB : WF_vars(NetDeliver("B", p, NoMut))
    /\ \A p \in LiveToA : WF_vars(NetDeliver("A", p, NoMut))

SpecLive == Init /\ [][LiveNext]_vars /\ Fairness

\* ------------------------------------------ the framing functions alone
FrameKinds == {ACK, DATA}
FrameNumbers == {-1, 0, 1, 379, 65535, 65536}
FramePayloads == {EmptyStr, <<97>>, <<233>>, <<97, 98>>,
                  <<127, 127, 127, 127, 127, 127, 127, 127>>}

FrameInit ==
    /\ HostInit
    /\ probe \in {[stage |-> "in", kind |-> k, number |-> n, payload |-> pl] :
                     k \in FrameKinds, n \in FrameNumbers, pl \in FramePayloads}

\* make_pkt applied to the input
Frame ==
    /\ probe.stage = "in"
    /\ probe' = [stage |-> "pkt", kind |-> probe.kind, number |-> probe.number,
                 payload |-> probe.payload,
                 pkt |-> make_pkt(probe.kind, probe.number, 0, probe.payload)]
    /\ UNCHANGED hostVars

\* is_corrupt and extract_payload applied to the framed packet
Verify ==
    /\ probe.stage = "pkt"
    /\ probe' = [stage |-> "done", kind |-> probe.kind, number |-> probe.number,
                 payload |-> probe.payload, pkt |-> probe.pkt,
                 corrupt |-> is_corrupt(probe.pkt),
                 parsed |-> extract_payload(probe.pkt)]
    /\ UNCHANGED hostVars

FrameNext == Frame \/ Verify

SpecFrame == FrameInit /\ [][FrameNext]_vars

\* ------------------------------------------------------ reading a packet
\* header fields as they stand in the bytes
TagOf(b) == IF Len(b) >= 2 THEN UnpackH(SubSeq(b, 1, 2)) ELSE -1
NumberOf(b) == Unpacki(SubSeq(b, 3, 6))
PayloadOf(b) == extract_payload(b).data[5]

Min(a, b) == IF a <= b THEN a ELSE b
Max(a, b) == IF a >= b THEN a ELSE b

\* ================================================================ claims

\* C1: in every reachable state the payloads B passed to its application
\* layer are a prefix of the payloads the application of A submitted, in
\* submission order, none delivered twice.
InOrderDelivery == IsPrefix(delivered["B"], submitted["A"])

\* C2: the pending queue is FIFO: of two submitted payloads that both carry
\* a sequence number, the one submitted earlier carries the smaller number.
FifoOrder ==
    \A i \in 1..Len(sub_of["A"]) : \A j \in 1..Len(sub_of["A"]) :
        i < j => sub_of["A"][i] < sub_of["A"][j]

\* C3: the payloads an entity has delivered to its application layer are
\* exactly those of the DATA packets numbered 0 .. expected_seq_val-1 (the
\* packets its peer stored under these numbers), once each, in that order.
ExactlyOnceInOrder ==
    \A e \in Ent :
        /\ Len(delivered[e]) = expected_seq_val[e]
        /\ \A i \in 1..Len(delivered[e]) :
              /\ i <= Len(unACKed_buffer[Peer(e)])
              /\ TagOf(unACKed_buffer[Peer(e)][i]) = DATA
              /\ NumberOf(unACKed_buffer[Peer(e)][i]) = i - 1
              /\ PayloadOf(unACKed_buffer[Peer(e)][i]) = delivered[e][i]

\* C3 witness: B has delivered two payloads and was just handed a duplicate
\* (an intact DATA packet numbered below expected_seq_val)
DuplicateAfterDelivery ==
    /\ ev.op = "net" /\ ev.e = "B"
    /\ Len(delivered["B"]) >= 2
    /\ ~is_corrupt(ev.arg) /\ TagOf(ev.arg) = DATA
    /\ NumberOf(ev.arg) < expected_seq_val["B"] - 1

\* the step handed entity ev'.e an inbound DATA packet that is corrupt or
\* carries a number other than expected_seq_val
RejectedDataStep ==
    /\ ev'.op = "net"
    /\ TagOf(ev'.arg) = DATA
    /\ (is_corrupt(ev'.arg) \/ NumberOf(ev'.arg) # expected_seq_val[ev'.e])

\* C4: a rejected DATA packet delivers nothing, transmits exactly the stored
\* last_ACK, and leaves expected_seq_val, last_ACK and the sender state as
\* they were.
RejectedDataFrame ==
    [][RejectedDataStep =>
          /\ sent' = << last_ACK[ev'.e] >>
          /\ UNCHANGED << delivered, expected_seq_val, last_ACK, window_base,
                          next_seq_num, unACKed_buffer, app_layer_buffer,
                          timer >>]_vars

\* C5: window_base <= next_seq_num <= window_base + window_size in every
\* reachable state of every entity.
WindowInvariant ==
    \A e \in Ent : /\ window_base[e] <= next_seq_num[e]
                   /\ next_seq_num[e] <= window_base[e] + WindowSize

\* C5 witness: after an acknowledgment moved the base, the window of A is
\* full again
FullWindowAfterAck ==
    /\ window_base["A"] > 0
    /\ next_seq_num["A"] = window_base["A"] + WindowSize

\* the step handed entity ev'.e an intact ACK numbered at or above window_base
AckStep ==
    /\ ev'.op = "net"
    /\ ~is_corrupt(ev'.arg)
    /\ TagOf(ev'.arg) = ACK
    /\ NumberOf(ev'.arg) >= window_base[ev'.e]

TimeoutRetransmit ==
    [][ev'.op = "timer" =>
          LET e == ev'.e
          IN  /\ tlog' = << "start" >> /\ timer'[e]
              /\ Len(sent') = next_seq_num[e] - window_base[e]
              /\ \A j \in 1..Len(sent') :
                    /\ sent'[j] = unACKed_buffer[e][window_base[e] + j]
                    /\ NumberOf(sent'[j]) = window_base[e] + j - 1
              /\ UNCHANGED << window_base, next_seq_num, unACKed_buffer,
                              app_layer_buffer, expected_seq_val, last_ACK,
                              delivered >>]_vars

\* C7 witness: the timer expired with two packets outstanding and both were
\* retransmitted
TimeoutWithTwoOutstanding ==
    /\ ev.op = "timer" /\ ev.e = "A"
    /\ next_seq_num["A"] = window_base["A"] + 2
    /\ Len(sent) = 2

\* C8: a packet framed by make_pkt is judged not corrupt by is_corrupt, for
\* every kind, number and payload.
ChecksumRoundTrip == probe.stage = "done" => ~probe.corrupt

\* C9: receive_from_network_layer never propagates an exception, whatever
\* bytes arrive.
NoFault == ~ev.raised

\* all submitted payloads were delivered and acknowledged
Done ==
    /\ window_base["A"] = next_seq_num["A"]
    /\ app_layer_buffer["A"] = << >>
    /\ Len(delivered["B"]) = Len(submitted["A"])
    /\ \A i \in 1..Len(submitted["A"]) :
          \E j \in 1..Len(delivered["B"]) : delivered["B"][j] = submitted["A"][i]

\* C10: with a timer that fires and a channel that does not lose a packet
\* forever, every submitted payload is eventually delivered to B and
\* acknowledged: A again and again reaches window_base = next_seq_num with an
\* empty pending queue and nothing undelivered.
ReliableDelivery == []<>Done

\* the packets in flight in SpecLive are those its fairness condition names
LiveUniverse == net["B"] \subseteq LiveToB /\ net["A"] \subseteq LiveToA


\* the step handed entity ev'.e an ACK-tagged packet whose checksum fails
CorruptAckStep ==
    /\ ev'.op = "net"
    /\ TagOf(ev'.arg) = ACK
    /\ is_corrupt(ev'.arg)

\* C11: a corrupt ACK-tagged packet leaves window_base, next_seq_num, the
\* unacknowledged buffer, the pending queue, expected_seq_val and last_ACK
\* unchanged and neither starts nor stops the timer.
CorruptAckFrame ==
    [][CorruptAckStep =>
          /\ tlog' = << >>
          /\ UNCHANGED << window_base, next_seq_num, unACKed_buffer,
                          app_layer_buffer, expected_seq_val, last_ACK,
                          timer >>]_vars

\* C11 witness: A, with a packet outstanding and its timer running, was
\* handed a corrupt ACK whose number field reads at or above window_base
CorruptAckWhileWaiting ==
    /\ ev.op = "net" /\ ev.e = "A"
    /\ Len(ev.arg) >= HeaderLen /\ TagOf(ev.arg) = ACK /\ is_corrupt(ev.arg)
    /\ NumberOf(ev.arg) >= window_base["A"]
    /\ window_base["A"] < next_seq_num["A"] /\ timer["A"]

\* no start_timer in log[i..] finds the timer running
RECURSIVE StopBeforeStart(_, _, _)
StopBeforeStart(log, i, running) ==
    IF i > Len(log) THEN TRUE
    ELSE /\ (log[i] = "start" => ~running)
         /\ StopBeforeStart(log, i + 1, log[i] = "start")

\* C12: no handler call starts the timer of its entity while that timer is
\* running; a running timer is stopped first (an expired timer is not
\* running when timer_interrupt is entered).
SingleTimer ==
    [][StopBeforeStart(tlog', 1,
                       IF ev'.op = "timer" THEN FALSE ELSE timer[ev'.e])]_vars

\* C12 witness: an ACK found the timer running, stopped it and started it
\* again for the packets still outstanding
TimerRestartedByAck ==
    /\ ev.op = "net" /\ ev.e = "A"
    /\ tlog = << "stop", "start" >>
    /\ timer["A"]

\* C13: a corrupt ACK-tagged packet makes the entity transmit nothing.
CorruptAckSilent == [][CorruptAckStep => sent' = << >>]_vars

\* the step handed entity ev'.e an intact DATA packet carrying the number
\* the entity expects
InSequenceDataStep ==
    /\ ev'.op = "net"
    /\ TagOf(ev'.arg) = DATA
    /\ ~is_corrupt(ev'.arg)
    /\ NumberOf(ev'.arg) = expected_seq_val[ev'.e]

\* C14: an intact DATA packet with the expected number is accepted whatever
\* its payload, the zero-length payload included: the payload is delivered,
\* an ACK for its number becomes last_ACK and is transmitted, and
\* expected_seq_val grows by one.
InSequenceAccepted ==
    [][InSequenceDataStep =>
          /\ delivered' = [delivered EXCEPT ![ev'.e] =
                               Append(@, PayloadOf(ev'.arg))]
          /\ last_ACK' = [last_ACK EXCEPT ![ev'.e] =
                              make_pkt(ACK, NumberOf(ev'.arg), 0, EmptyStr)]
          /\ sent' = << last_ACK'[ev'.e] >>
          /\ expected_seq_val' = [expected_seq_val EXCEPT ![ev'.e] = @ + 1]]_vars

\* the step handed entity ev'.e an intact ACK numbered below its window_base
StaleAckStep ==
    /\ ev'.op = "net"
    /\ Len(ev'.arg) >= HeaderLen
    /\ TagOf(ev'.arg) = ACK
    /\ ~is_corrupt(ev'.arg)
    /\ NumberOf(ev'.arg) < window_base[ev'.e]

\* C15: an intact ACK whose number is below window_base (the sentinel -1
\* included) changes no state, makes no timer call and transmits nothing.
StaleAckNoOp ==
    [][StaleAckStep =>
          /\ tlog' = << >>
          /\ sent' = << >>
          /\ UNCHANGED << window_base, next_seq_num, unACKed_buffer,
                          app_layer_buffer, expected_seq_val, last_ACK,
                          timer, delivered >>]_vars

\* C15 witness: after its window moved A, still waiting for an ACK, was
\* handed an intact ACK for a packet already acknowledged
StaleAckWhileWaiting ==
    /\ ev.op = "net" /\ ev.e = "A"
    /\ Len(ev.arg) >= HeaderLen /\ TagOf(ev.arg) = ACK /\ ~is_corrupt(ev.arg)
    /\ NumberOf(ev.arg) >= 0 /\ NumberOf(ev.arg) < window_base["A"]
    /\ ev.wb = window_base["A"]
    /\ window_base["A"] < next_seq_num["A"] /\ timer["A"]

\* C16: the timer of an entity runs exactly when its window is non-empty,
\* and a timer expiry is never handled with an empty window.
TimerTracksWindow ==
    /\ \A e \in Ent : timer[e] <=> (window_base[e] # next_seq_num[e])
    /\ ev.op = "timer" => window_base[ev.e] # next_seq_num[ev.e]

\* C16 witness: an ACK for everything outstanding emptied the window of A
\* and stopped its timer
WindowEmptiedByAck ==
    /\ ev.op = "net" /\ ev.e = "A"
    /\ tlog = << "stop" >>
    /\ window_base["A"] = next_seq_num["A"] /\ window_base["A"] > 0
    /\ ~timer["A"]

\* C17: a whole inbound packet whose kind tag is neither ACK nor DATA is
\* never delivered and never advances expected_seq_val or window_base,
\* even when its checksum verifies and its number is the expected one.
UnknownKindRejected ==
    [][(/\ ev'.op = "net"
        /\ Len(ev'.arg) >= HeaderLen
        /\ TagOf(ev'.arg) \notin {ACK, DATA})
       => UNCHANGED << delivered, expected_seq_val, window_base >>]_vars

\* C18: a submit into a window with room transmits exactly one DATA packet
\* with number next_seq_num and the submitted payload, stores it, starts the
\* timer iff window_base = next_seq_num held before, adds one to
\* next_seq_num and leaves the pending queue alone; a submit onto a full
\* window only appends the payload to the pending queue.
SubmitEffect ==
    [][ev'.op = "app" =>
          LET e == ev'.e
              pkt == make_pkt(DATA, next_seq_num[e], 0, ev'.arg)
          IN  IF next_seq_num[e] < window_base[e] + WindowSize
              THEN /\ sent' = << pkt >>
                   /\ unACKed_buffer' =
                          [unACKed_buffer EXCEPT ![e] = Append(@, pkt)]
                   /\ tlog' = IF window_base[e] = next_seq_num[e]
                              THEN << "start" >> ELSE << >>
                   /\ next_seq_num' = [next_seq_num EXCEPT ![e] = @ + 1]
                   /\ UNCHANGED << app_layer_buffer, window_base >>
              ELSE /\ app_layer_buffer' =
                          [app_layer_buffer EXCEPT ![e] = Append(@, ev'.arg)]
                   /\ sent' = << >>
                   /\ tlog' = << >>
                   /\ UNCHANGED << next_seq_num, window_base, timer,
                                   unACKed_buffer >>]_vars

\* C18 witness: after one submit that started the timer and further
\* submits that did not, a submit found the window full and was queued
SubmitOntoFullWindow ==
    /\ ev.op = "app" /\ ev.e = "A"
    /\ sent = << >>
    /\ Len(app_layer_buffer["A"]) = 1
    /\ next_seq_num["A"] = WindowSize

\* C19: the sender never takes for acknowledged a packet its peer has not
\* accepted, and the peer never accepts a number the sender has not
\* assigned: window_base <= expected_seq_val of the peer <= next_seq_num.
CrossEntityWindow ==
    \A e \in Ent : /\ window_base[e] <= expected_seq_val[Peer(e)]
                   /\ expected_seq_val[Peer(e)] <= next_seq_num[e]

\* C19 witness: B has accepted a packet whose ACK has not moved the window
\* of A, and A has sent a packet B has not accepted
AcceptedNotYetAcked ==
    /\ window_base["A"] < expected_seq_val["B"]
    /\ expected_seq_val["B"] < next_seq_num["A"]

\* C20: a payload waits in the pending queue only while the window is full.
PendingImpliesFull ==
    \A e \in Ent : Len(app_layer_buffer[e]) > 0
                       => next_seq_num[e] = window_base[e] + WindowSize

\* C20 witness: the window of A has slid and is full again while a payload
\* still waits in the pending queue
QueuedAgainAfterDrain ==
    /\ Len(app_layer_buffer["A"]) > 0
    /\ window_base["A"] > 0
    /\ next_seq_num["A"] = window_base["A"] + WindowSize
====
